---- MODULE Spec2Model ----
(***************************************************************************)
(* Model of IntervalJitter (src/src/index.js): a callback executed at      *)
(* random intervals through two host timers, the "outer" wait timer and    *)
(* the "inner" zero-delay timer that re-enters the loop.                   *)
(*                                                                         *)
(* JavaScript values are records [t, n]: t is the kind of the value and n  *)
(* its payload (the integer of a number, the index of a function).         *)
(***************************************************************************)
EXTENDS Integers, FiniteSets, Sequences, TLC

INTERVAL_JITTER_DEFAULT_MAX_INTERVAL == 1000

INTERVAL_JITTER_MAX_INTERVAL == 2147483647

\* Largest number of host timers pending at once.
MaxPending == 2

-----------------------------------------------------------------------------
(* JavaScript values *)

Num(i) == [t |-> "number", n |-> i]

\* undefined: a missing argument, an unset property.
Undefined == [t |-> "undefined", n |-> 0]

NaN == [t |-> "NaN", n |-> 0]

\* A number above INTERVAL_JITTER_MAX_INTERVAL (TLC integers end there).
Infinity == [t |-> "Infinity", n |-> 0]

\* A non-numeric string such as "abc": truthy, ToNumber gives NaN.
Str == [t |-> "string", n |-> 0]

\* The functions a client passes as callback, by what their body does.
FnReturn == [t |-> "function", n |-> 0]

FnThrow == [t |-> "function", n |-> 1]

FnStop == [t |-> "function", n |-> 2]

FnStopRun == [t |-> "function", n |-> 3]

Functions == {FnReturn, FnThrow, FnStop, FnStopRun}

\* typeof v === "function"
IsFunction(v) == v.t = "function"

IsNumber(v) == v.t = "number"

\* !v
Falsy(v) == v.t \in {"undefined", "NaN"} \/ v = Num(0)

\* a < b : both operands go through ToNumber, NaN compares false.
JsLt(a, b) ==
  \/ IsNumber(a) /\ IsNumber(b) /\ a.n < b.n
  \/ IsNumber(a) /\ b = Infinity

\* a > b
JsGt(a, b) == JsLt(b, a)

\* Math.random() is 0 or the largest double below 1.
RandomSamples == {0, 1}

\* Math.floor(r * (diff + 1)), diff = maxInterval - minInterval.
FloorRandomTimes(r, diff) ==
  IF r = 0 THEN 0
  ELSE IF diff >= 0 THEN diff ELSE diff + 1

\* The draw without "+ this.minInterval".
RandomIntervalNoMin(r, min, max) ==
  IF IsNumber(min) /\ IsNumber(max)
    THEN Num(FloorRandomTimes(r, max.n - min.n))
    ELSE IF min.t = "string" THEN Str ELSE NaN

\* Math.floor(Math.random() * (max - min + 1)) + min
RandomInterval(r, min, max) ==
  IF IsNumber(min) /\ IsNumber(max)
    THEN Num(FloorRandomTimes(r, max.n - min.n) + min.n)
    ELSE IF min.t = "string" THEN Str ELSE NaN

\* The arguments the setters and the constructor options are called with.
NumericArgs == {Num(0 - 5), Num(0), Num(50), Num(100), Num(2000), Infinity}

IntervalArgs == NumericArgs \cup {Undefined, NaN, Str}

\* The bounds tried while the loop runs.
LoopArgs == {Undefined, Num(2000)}

CallbackArgs == Functions \cup {Undefined, Str}

\* The callbacks tried while the loop runs.
LoopCallbacks == Functions \cup {Undefined}

\* The arguments of setCallback tried while the bounds change too.
SwapCallbacks == {FnReturn, Undefined}

-----------------------------------------------------------------------------
(* The instance and the host's timers *)

VARIABLES callback, stopped, minInterval, maxInterval, randomInterval,
          outerTimeoutTimer, innerTimeoutTimer, timers, op, args, res, raised,
          hooked, sinceCall

vars == <<callback, stopped, minInterval, maxInterval, randomInterval,
          outerTimeoutTimer, innerTimeoutTimer, timers, op, args, res, raised,
          hooked, sinceCall>>

\* timers: the host's pending timers, each the handle setTimeout returned
\* and the function it runs (outer: the wait, whose delay is the
\* randomInterval drawn with it; inner: the zero-delay re-entry of loop).
\* op, args, res, raised observe the run: the last operation, the
\* constructor's arguments, how the last call of the callback ended, and
\* whether a call has raised since the last run().  hooked holds the
\* argument of the call of onCallbackExecuted the last operation made, if
\* it made one.  sinceCall tells what followed the last call of the
\* callback: "none" before the first call of a run(), "called" after a
\* call, "yielded" once an inner timer has fired and scheduled a wait.

\* The instance with the host's pending timers, as one value.
This ==
  [callback |-> callback, stopped |-> stopped, minInterval |-> minInterval,
   maxInterval |-> maxInterval, randomInterval |-> randomInterval,
   outerTimeoutTimer |-> outerTimeoutTimer,
   innerTimeoutTimer |-> innerTimeoutTimer, timers |-> timers]

\* null handle
NoTimer == 0

TimerIds == 1..(MaxPending + 3)

\* setTimeout's return value: a handle no pending timer and no field holds.
FreshId(s) ==
  LET used == {x.id : x \in s.timers}
                \cup {s.outerTimeoutTimer, s.innerTimeoutTimer}
  IN CHOOSE i \in TimerIds : i \notin used /\ \A j \in 1..(i - 1) : j \in used

\* clearTimeout(h): harmless when h is not pending.
clearTimeout(pending, h) == {x \in pending : x.id # h}

setMinInterval(s, v) ==
  IF \/ (v # Num(0) /\ Falsy(v))
     \/ JsLt(v, Num(0))
     \/ JsGt(v, Num(INTERVAL_JITTER_MAX_INTERVAL))
     \/ JsGt(v, s.maxInterval)
    THEN [s EXCEPT !.minInterval = Num(0)]
    ELSE [s EXCEPT !.minInterval = v]

\* A setMaxInterval that lowers minInterval to a maximum below it.
setMaxIntervalLowering(s, v) ==
  IF (v # Num(0) /\ Falsy(v)) \/ JsLt(v, Num(0))
    THEN [s EXCEPT !.maxInterval = Num(INTERVAL_JITTER_DEFAULT_MAX_INTERVAL)]
    ELSE IF JsLt(v, s.minInterval)
      THEN [s EXCEPT !.maxInterval = v, !.minInterval = v]
      ELSE IF JsGt(v, Num(INTERVAL_JITTER_MAX_INTERVAL))
        THEN [s EXCEPT !.maxInterval = Num(INTERVAL_JITTER_MAX_INTERVAL)]
        ELSE [s EXCEPT !.maxInterval = v]

setMaxInterval(s, v) ==
  IF \/ (v # Num(0) /\ Falsy(v))
     \/ JsLt(v, Num(0))
     \/ JsLt(v, s.minInterval)
    THEN [s EXCEPT !.maxInterval = Num(INTERVAL_JITTER_DEFAULT_MAX_INTERVAL)]
    ELSE IF JsGt(v, Num(INTERVAL_JITTER_MAX_INTERVAL))
      THEN [s EXCEPT !.maxInterval = Num(INTERVAL_JITTER_MAX_INTERVAL)]
      ELSE [s EXCEPT !.maxInterval = v]

\* setCallback without the typeof test.
setCallbackUnchecked(s, f) == [s EXCEPT !.callback = f]

setCallback(s, f) ==
  IF IsFunction(f) THEN [s EXCEPT !.callback = f] ELSE s

\* The destructuring defaults of the constructor's second parameter.
Default(v, d) == IF v = Undefined THEN d ELSE v

\* The constructor with this.stopped = false.
IntervalJitterNotStopped(f, mn, mx) ==
  LET s0 == [callback |-> f, stopped |-> FALSE, minInterval |-> Undefined,
             maxInterval |-> Undefined, randomInterval |-> Undefined,
             outerTimeoutTimer |-> NoTimer, innerTimeoutTimer |-> NoTimer,
             timers |-> {}]
      s1 == setMinInterval(s0, Default(mn, Num(0)))
  IN setMaxInterval(s1,
       Default(mx, Num(INTERVAL_JITTER_DEFAULT_MAX_INTERVAL)))

\* new IntervalJitter(f, {minInterval: mn, maxInterval: mx})
IntervalJitter(f, mn, mx) ==
  LET s0 == [callback |-> f, stopped |-> TRUE, minInterval |-> Undefined,
             maxInterval |-> Undefined, randomInterval |-> Undefined,
             outerTimeoutTimer |-> NoTimer, innerTimeoutTimer |-> NoTimer,
             timers |-> {}]
      s1 == setMinInterval(s0, Default(mn, Num(0)))
  IN setMaxInterval(s1,
       Default(mx, Num(INTERVAL_JITTER_DEFAULT_MAX_INTERVAL)))

\* A loop without the test of this.stopped.
loopUnchecked(s, r) ==
  LET d == RandomInterval(r, s.minInterval, s.maxInterval)
      id == FreshId(s)
  IN [s EXCEPT !.randomInterval = d,
               !.outerTimeoutTimer = id,
               !.timers = @ \cup {[id |-> id, kind |-> "outer"]}]

\* A loop that draws between the default bounds.
loopDefaultBounds(s, r) ==
  IF s.stopped THEN s
  ELSE LET d == RandomInterval(r, Num(0),
                               Num(INTERVAL_JITTER_DEFAULT_MAX_INTERVAL))
           id == FreshId(s)
       IN [s EXCEPT !.randomInterval = d,
                    !.outerTimeoutTimer = id,
                    !.timers = @ \cup {[id |-> id, kind |-> "outer"]}]

\* The closure loop of run: the stopped check, the draw, the outer timer.
loop(s, r) ==
  IF s.stopped THEN s
  ELSE LET d == RandomInterval(r, s.minInterval, s.maxInterval)
           id == FreshId(s)
       IN [s EXCEPT !.randomInterval = d,
                    !.outerTimeoutTimer = id,
                    !.timers = @ \cup {[id |-> id, kind |-> "outer"]}]

\* A run() that returns at once while a loop is running.
runGuarded(s, r) ==
  IF ~s.stopped THEN s
  ELSE CHOOSE t \in {loop(s1, r) : s1 \in {[s EXCEPT !.stopped = FALSE]}} :
         TRUE

\* this.stopped = false; loop().  (The set of one element has TLC evaluate
\* the intermediate instance once.)
run(s, r) ==
  CHOOSE t \in {loop(s1, r) : s1 \in {[s EXCEPT !.stopped = FALSE]}} : TRUE

stop(s) ==
  LET p1 == IF s.outerTimeoutTimer # NoTimer
              THEN clearTimeout(s.timers, s.outerTimeoutTimer) ELSE s.timers
      p2 == IF s.innerTimeoutTimer # NoTimer
              THEN clearTimeout(p1, s.innerTimeoutTimer) ELSE p1
  IN [s EXCEPT !.timers = p2, !.stopped = TRUE]

\* What a call of the function f returns.
ReturnValue(f) == IF f = FnReturn THEN Str ELSE Undefined

\* How this.callback.call(this) ends.
CallOutcome(f) ==
  IF ~IsFunction(f) THEN "TypeError"
  ELSE IF f = FnThrow THEN "threw" ELSE "returned"

\* The instance after the body of the callback has run.
CallbackBody(s, r) ==
  IF s.callback = FnStop THEN stop(s)
  ELSE IF s.callback = FnStopRun THEN run(stop(s), r)
  ELSE s

\* The default hook: returns at once.
onCallbackExecuted(s) == s

\* The outer function without its setTimeout(loop).
setTimeoutLoopMissing(s) == s

\* this.innerTimeoutTimer = setTimeout(loop)
setTimeoutLoop(s) ==
  LET id == FreshId(s)
  IN [s EXCEPT !.innerTimeoutTimer = id,
               !.timers = @ \cup {[id |-> id, kind |-> "inner"]}]

\* The function given to the outer setTimeout; s no longer holds the
\* timer that fired.  A call that raises leaves the function there.
OuterHandler(s, r) ==
  IF CallOutcome(s.callback) # "returned" THEN s
  ELSE CHOOSE t \in {setTimeoutLoop(s1) :
                       s1 \in {onCallbackExecuted(CallbackBody(s, r))}} : TRUE

-----------------------------------------------------------------------------
(* The state machine *)

\* The fields and the timers after an operation that leaves them as s.
Becomes(s) ==
  /\ callback' = s.callback
  /\ stopped' = s.stopped
  /\ minInterval' = s.minInterval
  /\ maxInterval' = s.maxInterval
  /\ randomInterval' = s.randomInterval
  /\ outerTimeoutTimer' = s.outerTimeoutTimer
  /\ innerTimeoutTimer' = s.innerTimeoutTimer
  /\ timers' = s.timers

\* What the last operation was; args holds the constructor's arguments
\* until the first operation on the instance.
Did(o) == op' = o /\ args' = <<>> /\ res' = "none" /\ hooked' = <<>>

InitOver(CbArgs, IvArgs) ==
  \E f \in CbArgs, mn \in IvArgs, mx \in IvArgs :
    LET s == IntervalJitter(f, mn, mx) IN
      /\ callback = s.callback
      /\ stopped = s.stopped
      /\ minInterval = s.minInterval
      /\ maxInterval = s.maxInterval
      /\ randomInterval = s.randomInterval
      /\ outerTimeoutTimer = s.outerTimeoutTimer
      /\ innerTimeoutTimer = s.innerTimeoutTimer
      /\ timers = s.timers
      /\ op = "new"
      /\ args = <<f, mn, mx>>
      /\ res = "none"
      /\ raised = FALSE
      /\ hooked = <<>>
      /\ sinceCall = "none"

Init == InitOver(LoopCallbacks, LoopArgs)

SetMinInterval(v) ==
  /\ \E s \in {setMinInterval(This, v)} : Becomes(s)
  /\ Did("setMinInterval")
  /\ UNCHANGED <<raised, sinceCall>>

SetMaxInterval(v) ==
  /\ \E s \in {setMaxInterval(This, v)} : Becomes(s)
  /\ Did("setMaxInterval")
  /\ UNCHANGED <<raised, sinceCall>>

SetCallback(f) ==
  /\ \E s \in {setCallback(This, f)} : Becomes(s)
  /\ Did("setCallback")
  /\ UNCHANGED <<raised, sinceCall>>

\* run() called by the client, outside any timer function.
Run(r) ==
  /\ Cardinality(timers) < MaxPending
  /\ \E s \in {run(This, r)} : Becomes(s)
  /\ Did("run")
  /\ raised' = FALSE
  /\ sinceCall' = "none"

\* stop() called by the client, outside any timer function.
Stop ==
  /\ \E s \in {stop(This)} : Becomes(s)
  /\ Did("stop")
  /\ UNCHANGED <<raised, sinceCall>>

\* The host fires the outer timer x.
OuterFires(x, r) ==
  /\ x \in timers /\ x.kind = "outer"
  /\ \E s \in {OuterHandler([This EXCEPT !.timers = @ \ {x}], r)} :
       /\ Cardinality(s.timers) <= MaxPending
       /\ Becomes(s)
  /\ op' = "outer" /\ args' = <<>>
  /\ res' = CallOutcome(callback)
  /\ raised' = IF callback = FnStopRun THEN FALSE
               ELSE (raised \/ CallOutcome(callback) # "returned")
  /\ hooked' = IF CallOutcome(callback) = "returned"
                 THEN <<ReturnValue(callback)>> ELSE <<>>
  /\ sinceCall' = IF ~IsFunction(callback) THEN sinceCall
                  ELSE IF callback = FnStopRun THEN "none" ELSE "called"

\* The host fires the inner timer x.
InnerFires(x, r) ==
  /\ x \in timers /\ x.kind = "inner"
  /\ \E s \in {loop([This EXCEPT !.timers = @ \ {x}], r)} :
       /\ Cardinality(s.timers) <= MaxPending
       /\ Becomes(s)
  /\ Did("inner")
  /\ UNCHANGED raised
  /\ sinceCall' = IF sinceCall = "called" /\ ~stopped THEN "yielded"
                  ELSE sinceCall

Fires(x, r) == OuterFires(x, r) \/ InnerFires(x, r)

Next ==
  \/ \E v \in LoopArgs : SetMinInterval(v)
  \/ \E v \in LoopArgs : SetMaxInterval(v)
  \/ \E f \in SwapCallbacks : SetCallback(f)
  \/ \E r \in RandomSamples : Run(r)
  \/ Stop
  \/ \E x \in timers, r \in RandomSamples : OuterFires(x, r)
  \/ \E x \in timers, r \in RandomSamples : InnerFires(x, r)

Spec == Init /\ [][Next]_vars

\* The loop under the default bounds with every callback, the host firing
\* the timers it holds.
LiveInit == InitOver(LoopCallbacks, {Undefined})

LiveNext ==
  \/ \E f \in LoopCallbacks : SetCallback(f)
  \/ \E r \in RandomSamples : Run(r)
  \/ Stop
  \/ \E x \in timers, r \in RandomSamples : OuterFires(x, r)
  \/ \E x \in timers, r \in RandomSamples : InnerFires(x, r)

\* The host fires one of the timers it holds.
HostFires == \E x \in timers, r \in RandomSamples : Fires(x, r)

FairSpec == LiveInit /\ [][LiveNext]_vars /\ WF_vars(HostFires)

\* The loop of one returning callback while the bounds change, up to the
\* largest interval.
BoundArgs == {Num(100), Num(2000), Infinity}

BoundsInit == InitOver({FnReturn}, BoundArgs \cup {Undefined})

BoundsNext ==
  \/ \E v \in BoundArgs : SetMinInterval(v)
  \/ \E v \in BoundArgs : SetMaxInterval(v)
  \/ \E r \in RandomSamples : Run(r)
  \/ Stop
  \/ \E x \in timers, r \in RandomSamples : OuterFires(x, r)
  \/ \E x \in timers, r \in RandomSamples : InnerFires(x, r)

BoundsSpec == BoundsInit /\ [][BoundsNext]_vars

\* The client calls run() only while stopped is true.
StartWhenStopped(r) == stopped /\ Run(r)

OneLoopNext ==
  \/ \E f \in LoopCallbacks : SetCallback(f)
  \/ \E r \in RandomSamples : StartWhenStopped(r)
  \/ Stop
  \/ \E x \in timers, r \in RandomSamples : OuterFires(x, r)
  \/ \E x \in timers, r \in RandomSamples : InnerFires(x, r)

OneLoopSpec == LiveInit /\ [][OneLoopNext]_vars

\* The constructor and the setters over numbers only.
NumericInit == InitOver(CallbackArgs, NumericArgs \cup {Undefined})

NumericNext ==
  \/ \E v \in NumericArgs : SetMinInterval(v)
  \/ \E v \in NumericArgs : SetMaxInterval(v)
  \/ \E f \in CallbackArgs : SetCallback(f)

NumericSpec == NumericInit /\ [][NumericNext]_vars

\* The constructor and the setters alone, over all the arguments.
SettersInit == InitOver(CallbackArgs, IntervalArgs)

SettersNext ==
  \/ \E v \in IntervalArgs : SetMinInterval(v)
  \/ \E v \in IntervalArgs : SetMaxInterval(v)
  \/ \E f \in CallbackArgs : SetCallback(f)

SettersSpec == SettersInit /\ [][SettersNext]_vars

TypeOK ==
  /\ stopped \in BOOLEAN
  /\ outerTimeoutTimer \in {NoTimer} \cup TimerIds
  /\ innerTimeoutTimer \in {NoTimer} \cup TimerIds
  /\ Cardinality(timers) <= MaxPending
  /\ \A x \in timers, y \in timers : x.id = y.id => x = y
  /\ hooked \in {<<>>} \cup {<<ReturnValue(f)>> : f \in Functions}
  /\ sinceCall \in {"none", "called", "yielded"}

-----------------------------------------------------------------------------
(* Properties *)

\* The last step called the callback (a TypeError calls nothing).
Invoked == op = "outer" /\ res \in {"returned", "threw"}

\* The fields and timers setCallback has no business with.
Rest ==
  <<stopped, minInterval, maxInterval, randomInterval, outerTimeoutTimer,
    innerTimeoutTimer, timers>>

\* C1: while stopped is true (stop() has returned and run() was not called
\* since), no step calls the callback.
C1_NoCallbackAfterStop == [][stopped => ~Invoked']_vars

\* C2: after construction with numeric options and any sequence of numeric
\* setter calls, 0 <= minInterval <= maxInterval <= 2147483647.
C2_BoundsOrdered ==
  /\ IsNumber(minInterval) /\ IsNumber(maxInterval)
  /\ 0 <= minInterval.n
  /\ minInterval.n <= maxInterval.n
  /\ maxInterval.n <= INTERVAL_JITTER_MAX_INTERVAL

\* C3: every step that draws a delay (it stores a new outer handle) draws it
\* within the bounds held at that moment: minInterval <= d <= maxInterval.
C3_DrawWithinBounds ==
  [][outerTimeoutTimer' # outerTimeoutTimer =>
       /\ IsNumber(randomInterval')
       /\ minInterval'.n <= randomInterval'.n
       /\ randomInterval'.n <= maxInterval'.n]_vars

\* What C4 expects of setMinInterval(v) under a numeric maxInterval.
C4_Expected(v) ==
  IF IsNumber(v) /\ 0 <= v.n /\ v.n <= maxInterval.n THEN v ELSE Num(0)

\* C4: setMinInterval(v) stores v when 0 <= v <= maxInterval and stores 0
\* for every other v (missing, non-numeric, negative, too large).
C4_SetMinInterval ==
  [][\A v \in IntervalArgs :
       IsNumber(maxInterval) /\ SetMinInterval(v)
         => minInterval' = C4_Expected(v)]_vars

\* What C5 expects of setMaxInterval(v) under a numeric minInterval.
C5_Expected(v) ==
  IF IsNumber(v) /\ minInterval.n <= v.n THEN v
  ELSE IF v = Infinity THEN Num(INTERVAL_JITTER_MAX_INTERVAL)
  ELSE Num(INTERVAL_JITTER_DEFAULT_MAX_INTERVAL)

\* C5: setMaxInterval(v) stores v when minInterval <= v <= 2147483647,
\* 2147483647 when v is above it, and 1000 for every v that is missing,
\* non-numeric, negative or below minInterval.
C5_SetMaxInterval ==
  [][\A v \in IntervalArgs :
       IsNumber(minInterval) /\ SetMaxInterval(v)
         => maxInterval' = C5_Expected(v)]_vars

\* C6: right after construction without options the bounds are 0 and 1000,
\* the instance is stopped, both handles are null and no timer is pending;
\* and as long as run() was never called (the outer handle is still null)
\* no step calls the callback.
C6_InitialState ==
  /\ [](op = "new" /\ args[2] = Undefined /\ args[3] = Undefined =>
          /\ minInterval = Num(0)
          /\ maxInterval = Num(INTERVAL_JITTER_DEFAULT_MAX_INTERVAL)
          /\ stopped
          /\ outerTimeoutTimer = NoTimer
          /\ innerTimeoutTimer = NoTimer
          /\ timers = {})
  /\ [][outerTimeoutTimer = NoTimer => ~Invoked' /\ op' # "outer"]_vars

C6_Witness ==
  /\ op = "new" /\ args[2] = Undefined /\ args[3] = Undefined
  /\ IsFunction(callback)

\* C7: while the instance is running and no call of the callback has
\* raised since run(), a timer is pending; and if from some point on the
\* instance stays running with a callback that only returns, the callback
\* is called again and again.
C7_SelfPerpetuating ==
  /\ [](~stopped /\ ~raised => timers # {})
  /\ (<>[](~stopped /\ ~raised /\ callback = FnReturn) => []<>Invoked)

C7_Witness ==
  /\ ~stopped /\ ~raised /\ callback = FnReturn
  /\ Invoked /\ timers # {}

\* C8: run() on a stopped instance starts a fresh loop (running, with a new
\* outer timer whose handle is stored), and once stop() was followed by
\* run() the callback is eventually called, unless stop() comes first.
C8_Resumable ==
  /\ [][stopped /\ op' = "run" =>
          /\ ~stopped'
          /\ \E x \in timers' \ timers :
               x.kind = "outer" /\ x.id = outerTimeoutTimer']_vars
  /\ [](op = "stop" => [](op = "run" => <>(Invoked \/ stopped)))

\* C9: setCallback(f) stores f when f is a function, keeps the stored
\* callback otherwise, and changes no other field and no timer.
C9_SetCallback ==
  [][op' = "setCallback" =>
       \A f \in LoopCallbacks :
         SetCallback(f) =>
           /\ callback' = (IF IsFunction(f) THEN f ELSE callback)
           /\ UNCHANGED Rest]_vars

C9_Witness ==
  /\ op = "setCallback" /\ callback = FnStop
  /\ ~stopped /\ timers # {}

\* C10: the stored callback is a function also when the constructor was
\* given none, so that a firing outer timer has something to call.
C10_CallbackCallable == IsFunction(callback) /\ res # "TypeError"

\* C11: every step that calls the callback also calls onCallbackExecuted,
\* once and with the value that call of the callback returned, so that the
\* calls of the hook are as many as the calls of the callback.
C11_HookAfterEveryCall ==
  [][Invoked' => hooked' = <<ReturnValue(callback')>>]_vars

\* C12: two calls of the callback never occur without an inner (yield)
\* timer firing, re-checking stopped and scheduling a wait in between.
C12_StrictlySequential == [][Invoked' => sinceCall # "called"]_vars

\* C13: a step in which the callback raises still schedules the inner
\* (yield) timer of the next iteration.
C13_YieldAfterRaise ==
  [][(op' = "outer" /\ res' = "threw")
       => \E x \in timers' \ timers :
            x.kind = "inner" /\ x.id = innerTimeoutTimer']_vars

C15_SettersIndependent ==
  [][/\ (op' = "setMinInterval")
         => UNCHANGED <<maxInterval, stopped, callback, randomInterval,
                        outerTimeoutTimer, innerTimeoutTimer, timers>>
     /\ (op' = "setMaxInterval")
         => UNCHANGED <<minInterval, stopped, callback, randomInterval,
                        outerTimeoutTimer, innerTimeoutTimer, timers>>
     /\ (op' = "setMinInterval" /\ minInterval' # Num(0))
         => ~JsGt(minInterval', maxInterval)
     /\ (op' = "setMaxInterval"
           /\ maxInterval' # Num(INTERVAL_JITTER_DEFAULT_MAX_INTERVAL))
         => ~JsLt(maxInterval', minInterval)]_vars

\* setMaxInterval was called with a maximum below the minimum while the
\* loop waits: the maximum is 1000, the minimum still 2000, the wait pending.
C15_Witness ==
  /\ op = "setMaxInterval"
  /\ maxInterval = Num(INTERVAL_JITTER_DEFAULT_MAX_INTERVAL)
  /\ minInterval = Num(2000)
  /\ ~stopped
  /\ \E x \in timers : x.kind = "outer" /\ x.id = outerTimeoutTimer

\* A step has drawn a delay and handed it to setTimeout with the outer
\* timer function.
Draws == \E x \in timers' \ timers :
           x.kind = "outer" /\ x.id = outerTimeoutTimer'

\* C16: a setter called while a wait is pending leaves that wait pending
\* under its handle with the delay drawn for it, and every later draw is
\* made between the bounds of the moment of the draw.
C16_BoundsAtNextDraw ==
  [][/\ (op' \in {"setMinInterval", "setMaxInterval"})
         => /\ \A x \in timers : x \in timers'
            /\ timers' \subseteq timers
            /\ outerTimeoutTimer' = outerTimeoutTimer
            /\ randomInterval' = randomInterval
     /\ Draws
         => randomInterval' \in {RandomInterval(r, minInterval', maxInterval') :
                                  r \in RandomSamples}]_vars

\* setMaxInterval has lowered the maximum below the delay of the pending
\* wait, which is still pending with that delay.
C16_Witness ==
  /\ op = "setMaxInterval"
  /\ ~stopped
  /\ \E x \in timers : x.kind = "outer" /\ x.id = outerTimeoutTimer
  /\ IsNumber(randomInterval) /\ IsNumber(minInterval) /\ IsNumber(maxInterval)
  /\ minInterval.n <= maxInterval.n
  /\ randomInterval.n > maxInterval.n

\* C17: when run() is only ever called while stopped is true, by the client
\* or by the callback, at most one timer is pending in every state.
C17_AtMostOneTimer == Cardinality(timers) <= 1

\* C18: when from some point on stopped stays true and run() is called no
\* more, neither by the client nor by the callback, then under fair firing
\* of the timers there is a point from which no timer is pending and no
\* step calls the callback.
C18_Quiescent ==
  <>[](stopped /\ callback # FnStopRun)
    => (<>[](timers = {}) /\ <>[][~Invoked']_vars)

\* An inner timer has fired while stopped is true and its loop has ended:
\* nothing is pending.
C18_Witness ==
  /\ op = "inner"
  /\ stopped
  /\ timers = {}
  /\ sinceCall = "called"

\* C19: with integer bounds, every delay given to setTimeout with the outer
\* timer function is an integer from 0 to 2147483647, also when minInterval
\* is above maxInterval.
C19_DelayInRange ==
  [][Draws => /\ IsNumber(randomInterval')
              /\ randomInterval'.n >= 0
              /\ randomInterval'.n <= INTERVAL_JITTER_MAX_INTERVAL]_vars

\* A delay has just been drawn with minInterval above maxInterval.
C19_Witness ==
  /\ op \in {"run", "inner"}
  /\ \E x \in timers : x.kind = "outer" /\ x.id = outerTimeoutTimer
  /\ IsNumber(randomInterval) /\ IsNumber(minInterval) /\ IsNumber(maxInterval)
  /\ minInterval.n > maxInterval.n
  /\ randomInterval.n > maxInterval.n

====
